---------------------------- MODULE Spec2Model ----------------------------
(***************************************************************************)
(* Model of the statsd client of Unix4ever/statsd: the StatsdSink delivery *)
(* engine (sink.go: a bounded channel, one flushMetrics goroutine, a       *)
(* packet buffer and a UDP socket) and the StatsdClient front end that     *)
(* renders metrics and pushes them into the sink.                          *)
(*                                                                         *)
(* Strings are sequences of one-character strings, so that len(), prefix   *)
(* tests, strings.Replace and fmt.Sprintf are computed, not assumed.       *)
(***************************************************************************)
EXTENDS Integers, Sequences, FiniteSets, TLC

VARIABLES
    queue,      \* s.metricQueue: the channel's buffered items, oldest first
    closed,     \* close(s.metricQueue) has been executed
    pc,         \* flushMetrics' position: CONNECT, RECONNECT, ACTIVE, WAIT, QUIT
    buf,        \* buf.Bytes() of flushMetrics
    bufIds,     \* history: which pushes the bytes of buf came from
    sock,       \* flushMetrics' sock: "nil" or "open"
    sent,       \* history: the datagrams sock.Write accepted, in write order
    nPushed,    \* history: number of PushMetric calls so far; call n has id n
    lastPush,   \* history: the argument of the last PushMetric call
    tooLong,    \* history: a metric longer than statsdMaxLen was pushed
    accepted,   \* history: ids of the calls whose metric entered the channel
    panicked,   \* a goroutine panicked (send on / close of a closed channel)
    wasDown,    \* history: flushMetrics has been at WAIT at least once
    wait,       \* flushMetrics' wait: the time.After channel of WAIT: idle, armed, fired
    closedAt,   \* history: where flushMetrics was when Shutdown closed the channel
    prefix,     \* c.prefix of the StatsdClient (empty when the sink is used alone)
    pending,    \* the PushMetric calls a running client method has still to make
    lastCall    \* history: the client method called last, and its argument

vars == << queue, closed, pc, buf, bufIds, sock, sent, nPushed, lastPush,
           tooLong, accepted, panicked, wasDown, wait, closedAt, prefix, pending,
           lastCall >>

sinkVars == << queue, closed, pc, buf, bufIds, sock, sent, nPushed, lastPush,
               tooLong, accepted, panicked, wasDown, wait,
               closedAt >>

\* what only PushMetric changes
pushes == << nPushed, lastPush, tooLong, accepted >>

clientVars == << prefix, pending, lastCall >>

---------------------------------------------------------------------------
(* Bounds of the model *)

\* make(chan string, 4096), scaled down
QueueCap == 1

\* the statsdMaxLen argument of NewStatsdSink
statsdMaxLen == 16

\* PushMetric calls in one behaviour
MaxPush == 3

---------------------------------------------------------------------------
(* Strings *)

\* a string of n filler characters
Filler(n) == [i \in 1..n |-> "m"]

\* the metrics handed to PushMetric directly: two that fill a packet exactly
\* (without the separator), and one longer than a packet
SinkMetrics ==
    { Filler(statsdMaxLen \div 2 - 1),
      Filler(statsdMaxLen - (statsdMaxLen \div 2 - 1)),
      Filler(statsdMaxLen + 1) }

\* strings.HasPrefix(s, p)
HasPrefix(s, p) == Len(s) >= Len(p) /\ SubSeq(s, 1, Len(p)) = p

\* the lines of a datagram: strings.Split(s, "\n")
RECURSIVE Split(_)
Split(s) ==
    IF \E i \in 1..Len(s) : s[i] = "\n"
    THEN LET i == CHOOSE k \in 1..Len(s) :
                    s[k] = "\n" /\ \A j \in 1..(k - 1) : s[j] # "\n"
         IN  << SubSeq(s, 1, i - 1) >> \o Split(SubSeq(s, i + 1, Len(s)))
    ELSE << s >>

---------------------------------------------------------------------------
(* StatsdSink *)

\* a queued metric: the string, tagged with the PushMetric call it came from
Item(id, m) == [id |-> id, text |-> m]

\* NewStatsdSink: an empty channel, and flushMetrics started at CONNECT
SinkInit ==
    /\ queue = << >>
    /\ closed = FALSE
    /\ pc = "CONNECT"
    /\ buf = << >>
    /\ bufIds = << >>
    /\ sock = "nil"
    /\ sent = << >>
    /\ nPushed = 0
    /\ lastPush = << >>
    /\ tooLong = FALSE
    /\ accepted = {}
    /\ panicked = FALSE
    /\ wasDown = FALSE
    /\ wait = "idle"
    /\ closedAt = "open"

\* TrySend, were a full channel to make room by evicting its oldest item
TrySendEvict(m) ==
    /\ queue' = Append(IF Len(queue) < QueueCap THEN queue ELSE Tail(queue),
                       Item(nPushed + 1, m))
    /\ accepted' = accepted \cup {nPushed + 1}

\* select { case s.metricQueue <- m: default: } on an open channel
TrySend(m) ==
    IF Len(queue) < QueueCap
    THEN /\ queue' = Append(queue, Item(nPushed + 1, m))
         /\ accepted' = accepted \cup {nPushed + 1}
    ELSE UNCHANGED << queue, accepted >>

\* PushMetric(m).  Sending on a closed channel panics.  After QUIT the field is
\* nil (the send case can never proceed, default runs), but it was written
\* without synchronisation: the caller may still read the closed channel.
PushMetric(m) ==
    /\ ~panicked
    /\ nPushed' = nPushed + 1
    /\ lastPush' = m
    /\ tooLong' = (tooLong \/ Len(m) > statsdMaxLen)
    /\ \/ /\ ~closed
          /\ TrySend(m)
          /\ UNCHANGED panicked
       \/ /\ closed
          /\ panicked' = TRUE
          /\ UNCHANGED << queue, accepted >>
       \/ /\ pc = "QUIT"
          /\ UNCHANGED << queue, accepted, panicked >>
    /\ UNCHANGED << closed, pc, buf, bufIds, sock, sent, wasDown, wait,
                    closedAt >>

\* Shutdown: close(s.metricQueue); closing a closed or nil channel panics
Shutdown ==
    /\ ~panicked
    /\ IF closed
       THEN panicked' = TRUE /\ UNCHANGED << closed, closedAt >>
       ELSE closed' = TRUE /\ closedAt' = pc /\ UNCHANGED panicked
    /\ UNCHANGED << queue, pc, buf, bufIds, sock, sent, pushes,
                    wasDown, wait >>
    /\ UNCHANGED clientVars

\* net.Dial("udp", s.addr) and the branch on its error
Dial(ok) ==
    IF ok
    THEN pc' = "ACTIVE" /\ sock' = "open" /\ UNCHANGED << wasDown, wait >>
    ELSE pc' = "WAIT" /\ sock' = "nil" /\ wasDown' = TRUE /\ wait' = "armed"

\* CONNECT: a fresh buffer, then the dial of RECONNECT
Connect ==
    /\ ~panicked
    /\ pc = "CONNECT"
    /\ buf' = << >>
    /\ bufIds' = << >>
    /\ \E ok \in BOOLEAN : Dial(ok)
    /\ UNCHANGED << queue, closed, sent, pushes, panicked >>
    /\ UNCHANGED << closedAt, clientVars >>

\* RECONNECT: the dial alone; the buffer is the one in use
Reconnect ==
    /\ ~panicked
    /\ pc = "RECONNECT"
    /\ \E ok \in BOOLEAN : Dial(ok)
    /\ UNCHANGED << queue, closed, buf, bufIds, sent, pushes,
                    panicked >>
    /\ UNCHANGED << closedAt, clientVars >>

\* Write, were the bytes cut at statsdMaxLen before they are written
WriteCut(ok) ==
    IF ok
    THEN Append(sent, [bytes |-> SubSeq(buf, 1, IF Len(buf) < statsdMaxLen
                                                THEN Len(buf) ELSE statsdMaxLen),
                       ids |-> bufIds])
    ELSE sent

\* sock.Write(buf.Bytes()): what sent becomes
Write(ok) == IF ok THEN Append(sent, [bytes |-> buf, ids |-> bufIds]) ELSE sent

\* the buffer after "if buf.Len() > 0 { buf.WriteByte('\n') }; buf.WriteString(metric)"
AppendMetric(b, text) == IF Len(b) > 0 THEN b \o << "\n" >> \o text ELSE b \o text

\* the overflow test of the metric case
Overflows(text) == Len(text) + Len(buf) > statsdMaxLen

\* RecvMetric, were buf.Reset() placed after the test of the write's error
RecvMetricRetry ==
    /\ ~panicked
    /\ pc = "ACTIVE"
    /\ queue # << >>
    /\ LET metric == Head(queue) IN
       /\ queue' = Tail(queue)
       /\ IF Overflows(metric.text)
          THEN \E ok \in BOOLEAN :
                 /\ sent' = Write(ok)
                 /\ IF ok
                    THEN /\ buf' = AppendMetric(<< >>, metric.text)
                         /\ bufIds' = << metric.id >>
                         /\ UNCHANGED << pc, wasDown, wait >>
                    ELSE /\ UNCHANGED << buf, bufIds >>
                         /\ pc' = "WAIT"
                         /\ wasDown' = TRUE /\ wait' = "armed"
          ELSE /\ buf' = AppendMetric(buf, metric.text)
               /\ bufIds' = Append(bufIds, metric.id)
               /\ UNCHANGED << sent, pc, wasDown, wait >>
    /\ UNCHANGED << closed, sock, pushes, panicked >>
    /\ UNCHANGED << closedAt, clientVars >>

\* case metric, ok := <-s.metricQueue, with ok true
RecvMetric ==
    /\ ~panicked
    /\ pc = "ACTIVE"
    /\ queue # << >>
    /\ LET metric == Head(queue) IN
       /\ queue' = Tail(queue)
       /\ IF Overflows(metric.text)
          THEN \E ok \in BOOLEAN :
                 /\ sent' = Write(ok)
                 /\ IF ok
                    THEN /\ buf' = AppendMetric(<< >>, metric.text)
                         /\ bufIds' = << metric.id >>
                         /\ UNCHANGED << pc, wasDown, wait >>
                    ELSE /\ buf' = << >>
                         /\ bufIds' = << >>
                         /\ pc' = "WAIT"
                         /\ wasDown' = TRUE /\ wait' = "armed"
          ELSE /\ buf' = AppendMetric(buf, metric.text)
               /\ bufIds' = Append(bufIds, metric.id)
               /\ UNCHANGED << sent, pc, wasDown, wait >>
    /\ UNCHANGED << closed, sock, pushes, panicked >>
    /\ UNCHANGED << closedAt, clientVars >>

\* RecvClosed, were the closed channel to be ignored (continue)
RecvClosedIgnored ==
    /\ ~panicked
    /\ pc = "ACTIVE"
    /\ queue = << >>
    /\ closed
    /\ UNCHANGED vars

\* case metric, ok := <-s.metricQueue, with ok false: goto QUIT, where
\* s.metricQueue = nil and flushMetrics returns
RecvClosed ==
    /\ ~panicked
    /\ pc = "ACTIVE"
    /\ queue = << >>
    /\ closed
    /\ pc' = "QUIT"
    /\ UNCHANGED << queue, closed, buf, bufIds, sock, sent, pushes,
                    panicked, wasDown, wait >>
    /\ UNCHANGED << closedAt, clientVars >>

\* FlushTick, were buf.Reset() forgotten after a write that succeeded
FlushTickNoReset ==
    /\ ~panicked
    /\ pc = "ACTIVE"
    /\ IF Len(buf) = 0
       THEN UNCHANGED << buf, bufIds, sent, pc, wasDown, wait >>
       ELSE \E ok \in BOOLEAN :
              /\ sent' = Write(ok)
              /\ IF ok
                 THEN UNCHANGED << buf, bufIds, pc, wasDown, wait >>
                 ELSE /\ buf' = << >>
                      /\ bufIds' = << >>
                      /\ pc' = "WAIT"
                      /\ wasDown' = TRUE /\ wait' = "armed"
    /\ UNCHANGED << queue, closed, sock, pushes, panicked >>
    /\ UNCHANGED << closedAt, clientVars >>

\* case <-ticker.C
FlushTick ==
    /\ ~panicked
    /\ pc = "ACTIVE"
    /\ IF Len(buf) = 0
       THEN UNCHANGED << buf, bufIds, sent, pc, wasDown, wait >>
       ELSE \E ok \in BOOLEAN :
              /\ sent' = Write(ok)
              /\ buf' = << >>
              /\ bufIds' = << >>
              /\ IF ok
                 THEN UNCHANGED << pc, wasDown, wait >>
                 ELSE pc' = "WAIT" /\ wasDown' = TRUE /\ wait' = "armed"
    /\ UNCHANGED << queue, closed, sock, pushes, panicked >>
    /\ UNCHANGED << closedAt, clientVars >>

\* ReconnectTick, were it to jump to CONNECT, which makes a new buffer
ReconnectTickFresh ==
    /\ ~panicked
    /\ pc = "ACTIVE"
    /\ pc' = "CONNECT"
    /\ UNCHANGED << queue, closed, buf, bufIds, sock, sent, pushes,
                    panicked, wasDown, wait >>
    /\ UNCHANGED << closedAt, clientVars >>

\* ReconnectTick, were the reconnect ticker also a case of the select of WAIT
ReconnectTickInWait ==
    /\ ~panicked
    /\ pc \in {"ACTIVE", "WAIT"}
    /\ pc' = "RECONNECT"
    /\ UNCHANGED << queue, closed, buf, bufIds, sock, sent, pushes,
                    panicked, wasDown, wait >>
    /\ UNCHANGED << closedAt, clientVars >>

\* case <-reconnectTicker.C
ReconnectTick ==
    /\ ~panicked
    /\ pc = "ACTIVE"
    /\ pc' = "RECONNECT"
    /\ UNCHANGED << queue, closed, buf, bufIds, sock, sent, pushes,
                    panicked, wasDown, wait >>
    /\ UNCHANGED << closedAt, clientVars >>

\* WaitRecv, were the select of WAIT to have the timer as its only case
WaitRecvNever ==
    /\ ~panicked
    /\ pc = "WAIT"
    /\ queue # << >>
    /\ UNCHANGED vars

\* WaitRecv, were the metric received in WAIT kept for the next packet
WaitRecvBuffered ==
    /\ ~panicked
    /\ pc = "WAIT"
    /\ queue # << >>
    /\ queue' = Tail(queue)
    /\ buf' = AppendMetric(buf, Head(queue).text)
    /\ bufIds' = Append(bufIds, Head(queue).id)
    /\ UNCHANGED << closed, pc, sock, sent, pushes, panicked, wasDown, wait >>
    /\ UNCHANGED << closedAt, clientVars >>

\* WAIT: case _, ok := <-s.metricQueue, with ok true
WaitRecv ==
    /\ ~panicked
    /\ pc = "WAIT"
    /\ queue # << >>
    /\ queue' = Tail(queue)
    /\ UNCHANGED << closed, pc, buf, bufIds, sock, sent, pushes,
                    panicked, wasDown, wait >>
    /\ UNCHANGED << closedAt, clientVars >>

\* WAIT: the receive with ok false
WaitClosed ==
    /\ ~panicked
    /\ pc = "WAIT"
    /\ queue = << >>
    /\ closed
    /\ pc' = "QUIT"
    /\ UNCHANGED << queue, closed, buf, bufIds, sock, sent, pushes,
                    panicked, wasDown, wait >>
    /\ UNCHANGED << closedAt, clientVars >>

\* WaitTimer, were the timer to be armed again instead of leaving WAIT
WaitTimerRearmed ==
    /\ ~panicked
    /\ pc = "WAIT"
    /\ wait = "fired"
    /\ wait' = "armed"
    /\ UNCHANGED << queue, closed, pc, buf, bufIds, sock, sent, pushes,
                    panicked, wasDown >>
    /\ UNCHANGED << closedAt, clientVars >>

\* five seconds after WAIT was entered the runtime sends on wait
WaitElapse ==
    /\ ~panicked
    /\ pc = "WAIT"
    /\ wait = "armed"
    /\ wait' = "fired"
    /\ UNCHANGED << queue, closed, pc, buf, bufIds, sock, sent, pushes,
                    panicked, wasDown >>
    /\ UNCHANGED << closedAt, clientVars >>

\* WAIT: case <-wait: goto CONNECT
WaitTimer ==
    /\ ~panicked
    /\ pc = "WAIT"
    /\ wait = "fired"
    /\ pc' = "CONNECT"
    /\ wait' = "idle"
    /\ UNCHANGED << queue, closed, buf, bufIds, sock, sent, pushes,
                    panicked, wasDown >>
    /\ UNCHANGED << closedAt, clientVars >>

---------------------------------------------------------------------------
(* The sink used on its own: producers call PushMetric *)

Init ==
    /\ SinkInit
    /\ prefix = << >>
    /\ pending = << >>
    /\ lastCall = [op |-> "NewStatsdSink", arg |-> 0]

Push ==
    /\ nPushed < MaxPush
    /\ \E m \in SinkMetrics : PushMetric(m)
    /\ UNCHANGED clientVars

Next ==
    \/ Push
    \/ Shutdown
    \/ Connect
    \/ Reconnect
    \/ RecvMetric
    \/ RecvClosed
    \/ FlushTick
    \/ ReconnectTick
    \/ WaitRecv
    \/ WaitClosed
    \/ WaitElapse
    \/ WaitTimer

Spec == Init /\ [][Next]_vars

\* Go's select takes one of the ready cases at random, so no ready case is
\* passed over for ever; a dial returns; the timers keep firing.
Fairness ==
    /\ WF_vars(Connect)
    /\ WF_vars(Reconnect)
    /\ SF_vars(RecvMetric)
    /\ SF_vars(RecvClosed)
    /\ SF_vars(FlushTick)
    /\ SF_vars(WaitRecv)
    /\ SF_vars(WaitClosed)
    /\ WF_vars(WaitElapse)
    /\ SF_vars(WaitTimer)

\* The sink used as Shutdown's contract has it: Shutdown is called once and
\* no PushMetric call follows it.  The producers all push one metric, two of
\* which fit a packet and three of which do not.
PushShort ==
    /\ nPushed < MaxPush
    /\ ~closed
    /\ PushMetric(Filler(statsdMaxLen \div 2 - 1))
    /\ UNCHANGED clientVars

ShutdownOnce == ~closed /\ Shutdown

FairNext ==
    \/ PushShort
    \/ ShutdownOnce
    \/ Connect
    \/ Reconnect
    \/ RecvMetric
    \/ RecvClosed
    \/ FlushTick
    \/ ReconnectTick
    \/ WaitRecv
    \/ WaitClosed
    \/ WaitElapse
    \/ WaitTimer

FairSpec == Init /\ [][FairNext]_vars /\ Fairness

---------------------------------------------------------------------------
(* fmt.Sprintf and strings.Replace, on the characters the client uses *)

\* var Hostname, as init() sets it from os.Hostname()
Hostname == << "h" >>

HostToken == << "%", "H", "O", "S", "T", "%" >>

\* strings.Index(s, sub), from 1; 0 when sub does not occur
Index(s, sub) ==
    LET at == { i \in 1..(Len(s) - Len(sub) + 1) :
                  SubSeq(s, i, i + Len(sub) - 1) = sub }
    IN  IF at = {} THEN 0 ELSE CHOOSE i \in at : \A j \in at : i <= j

\* strings.Replace(s, old, new, 1)
ReplaceFirst(s, old, new) ==
    LET i == Index(s, old)
    IN  IF i = 0 THEN s
        ELSE SubSeq(s, 1, i - 1) \o new \o SubSeq(s, i + Len(old), Len(s))

DigitChars == << "0", "1", "2", "3", "4", "5", "6", "7", "8", "9" >>

RECURSIVE FormatUint(_)
FormatUint(n) ==
    IF n < 10 THEN << DigitChars[n + 1] >>
    ELSE FormatUint(n \div 10) \o << DigitChars[(n % 10) + 1] >>

\* %d of an integer
FormatInt(n) == IF n < 0 THEN << "-" >> \o FormatUint(-n) ELSE FormatUint(n)

\* %g of a float64 that is a whole number of halves; h is twice the value
FormatG(h) ==
    LET a == IF h < 0 THEN -h ELSE h
        sign == IF h < 0 THEN << "-" >> ELSE << >>
    IN  IF a % 2 = 0 THEN sign \o FormatUint(a \div 2)
        ELSE sign \o FormatUint(a \div 2) \o << ".", "5" >>

\* the arguments of Sprintf, with their Go types
StringArg(s) == [type |-> "string", v |-> s]
IntArg(n) == [type |-> "int", v |-> n]
Int64Arg(n) == [type |-> "int64", v |-> n]
Float64Arg(h) == [type |-> "float64", v |-> h]

TypeName(arg) ==
    CASE arg.type = "string" -> << "s", "t", "r", "i", "n", "g" >>
      [] arg.type = "int" -> << "i", "n", "t" >>
      [] arg.type = "int64" -> << "i", "n", "t", "6", "4" >>
      [] arg.type = "float64" -> << "f", "l", "o", "a", "t", "6", "4" >>

\* %v of an argument
FormatV(arg) ==
    CASE arg.type = "string" -> arg.v
      [] arg.type \in {"int", "int64"} -> FormatInt(arg.v)
      [] arg.type = "float64" -> FormatG(arg.v)

\* printArg: the verbs s, d, g and v; any other character after a % is, for
\* the characters used here, a verb the type does not have: %!verb(type=value)
PrintArg(arg, verb) ==
    IF \/ verb = "v"
       \/ verb = "s" /\ arg.type = "string"
       \/ verb = "d" /\ arg.type \in {"int", "int64"}
       \/ verb = "g" /\ arg.type = "float64"
    THEN FormatV(arg)
    ELSE << "%", "!", verb, "(" >> \o TypeName(arg) \o << "=" >>
            \o FormatV(arg) \o << ")" >>

\* the arguments the format did not use: %!(EXTRA type=value, ...)
RECURSIVE ExtraArgs(_, _)
ExtraArgs(args, n) ==
    IF n > Len(args) THEN << >>
    ELSE TypeName(args[n]) \o << "=" >> \o FormatV(args[n])
            \o (IF n < Len(args) THEN << ",", " " >> ELSE << >>)
            \o ExtraArgs(args, n + 1)

\* doPrintf from position i of the format, with args[argNum] the next argument
RECURSIVE DoPrintf(_, _, _, _)
DoPrintf(format, i, args, argNum) ==
    IF i > Len(format)
    THEN IF argNum <= Len(args)
         THEN << "%", "!", "(", "E", "X", "T", "R", "A", " " >>
                 \o ExtraArgs(args, argNum) \o << ")" >>
         ELSE << >>
    ELSE IF format[i] # "%"
    THEN << format[i] >> \o DoPrintf(format, i + 1, args, argNum)
    ELSE IF i = Len(format)
    THEN << "%", "!", "(", "N", "O", "V", "E", "R", "B", ")" >>
    ELSE IF format[i + 1] = "%"
    THEN << "%" >> \o DoPrintf(format, i + 2, args, argNum)
    ELSE IF argNum > Len(args)
    THEN << "%", "!", format[i + 1], "(", "M", "I", "S", "S", "I", "N", "G", ")" >>
            \o DoPrintf(format, i + 2, args, argNum)
    ELSE PrintArg(args[argNum], format[i + 1])
            \o DoPrintf(format, i + 2, args, argNum + 1)

\* fmt.Sprintf(format, args...)
Sprintf(format, args) == DoPrintf(format, 1, args, 1)

---------------------------------------------------------------------------
(* StatsdClient *)

\* the prefix arguments of NewStatsdClient
RawPrefixes == { HostToken \o << "." >>, << "%", "d", "." >> }

\* the stat names of the calls
Stats == { << "x" >> }

\* the counts of Incr and Decr
Counts == { 0, 1 }

\* the values of Gauge
GaugeValues == { -1 }

\* the values of Total
TotalValues == { 5 }

\* the values of FGauge, in halves: -1.5
FGaugeValues == { -3 }

\* e.Stats() of the events given to SendEvent
Events == { << << "e", ":", "1", "|", "c" >> >> }

\* NewStatsdClient: c.prefix
NewStatsdClient(rawPrefix) == ReplaceFirst(rawPrefix, HostToken, Hostname)

ClientInit ==
    /\ SinkInit
    /\ prefix \in { NewStatsdClient(p) : p \in RawPrefixes }
    /\ pending = << >>
    /\ lastCall = [op |-> "NewStatsdClient", arg |-> 0]

\* send: the metricValue it hands to PushMetric
send(stat, format, value) ==
    Sprintf(Sprintf(<< "%", "s", "%", "s", ":", "%", "s" >>,
                    << StringArg(prefix),
                       StringArg(ReplaceFirst(stat, HostToken, Hostname)),
                       StringArg(format) >>),
            << value >>)

\* Incr, were the count not tested
IncrAlways(stat, count) == << send(stat, << "%", "d", "|", "c" >>, Int64Arg(count)) >>

\* Each method below is the sequence of strings it hands to PushMetric.
Incr(stat, count) ==
    IF 0 # count
    THEN << send(stat, << "%", "d", "|", "c" >>, Int64Arg(count)) >>
    ELSE << >>

Decr(stat, count) ==
    IF 0 # count
    THEN << send(stat, << "%", "d", "|", "c" >>, Int64Arg(-count)) >>
    ELSE << >>

Gauge(stat, value) ==
    IF value < 0
    THEN << send(stat, << "%", "d", "|", "g" >>, IntArg(0)),
            send(stat, << "%", "d", "|", "g" >>, Int64Arg(value)) >>
    ELSE << send(stat, << "%", "d", "|", "g" >>, Int64Arg(value)) >>

FGauge(stat, value) ==
    IF value < 0
    THEN << send(stat, << "%", "d", "|", "g" >>, IntArg(0)),
            send(stat, << "%", "g", "|", "g" >>, Float64Arg(value)) >>
    ELSE << send(stat, << "%", "g", "|", "g" >>, Float64Arg(value)) >>

Total(stat, value) == << send(stat, << "%", "d", "|", "t" >>, Int64Arg(value)) >>

SendEvent(stats) ==
    [i \in DOMAIN stats |->
        Sprintf(<< "%", "s", "%", "s" >>,
                << StringArg(prefix), StringArg(stats[i]) >>)]

\* A method is called: it makes its first PushMetric call, if it makes any;
\* the calls that follow are made one by one by Continue.
Call(op, arg, metrics) ==
    /\ ~panicked
    /\ pending = << >>
    /\ nPushed + Len(metrics) <= MaxPush
    /\ lastCall' = [op |-> op, arg |-> arg]
    /\ IF metrics = << >>
       THEN UNCHANGED << sinkVars, pending >>
       ELSE PushMetric(Head(metrics)) /\ pending' = Tail(metrics)
    /\ UNCHANGED prefix

Continue ==
    /\ pending # << >>
    /\ PushMetric(Head(pending))
    /\ pending' = Tail(pending)
    /\ UNCHANGED << prefix, lastCall >>

CallIncr == \E s \in Stats, n \in Counts : Call("Incr", n, Incr(s, n))

CallDecr == \E s \in Stats, n \in Counts : Call("Decr", n, Decr(s, n))

CallGauge == \E s \in Stats, v \in GaugeValues : Call("Gauge", v, Gauge(s, v))

CallFGauge == \E s \in Stats, v \in FGaugeValues : Call("FGauge", v, FGauge(s, v))

CallTotal == \E s \in Stats, v \in TotalValues : Call("Total", v, Total(s, v))

CallSendEvent == \E e \in Events : Call("SendEvent", e, SendEvent(e))

\* The client until Close is called: the channel stays open, so the branches
\* of flushMetrics for a closed channel are not among the steps.
ClientNext ==
    \/ CallIncr
    \/ CallDecr
    \/ CallGauge
    \/ CallFGauge
    \/ CallTotal
    \/ CallSendEvent
    \/ Continue
    \/ Connect
    \/ Reconnect
    \/ RecvMetric
    \/ FlushTick
    \/ ReconnectTick
    \/ WaitRecv
    \/ WaitElapse
    \/ WaitTimer

ClientSpec == ClientInit /\ [][ClientNext]_vars

---------------------------------------------------------------------------
(* Properties *)

Ids == 1..MaxPush

\* the ids of the metrics written to the transport, in write order
RECURSIVE WrittenFrom(_)
WrittenFrom(i) ==
    IF i > Len(sent) THEN << >> ELSE sent[i].ids \o WrittenFrom(i + 1)

Written == WrittenFrom(1)

Delivered(id) == \E i \in DOMAIN Written : Written[i] = id

InFlight(id) ==
    \/ \E i \in DOMAIN queue : queue[i].id = id
    \/ \E i \in DOMAIN bufIds : bufIds[i] = id

\* a step that is a PushMetric call
IsPush == nPushed' = nPushed + 1

\* C1: before Shutdown a PushMetric call is always possible and is one step;
\* with room in the channel it appends its metric at the tail, with a full
\* channel it leaves the channel as it was; the channel never holds more than
\* its capacity.
C1_PushNeverBlocks ==
    /\ [](Len(queue) <= QueueCap)
    /\ []((~closed /\ ~panicked /\ nPushed < MaxPush) => ENABLED Push)
    /\ [][(IsPush /\ ~closed) =>
            /\ ~panicked'
            /\ IF Len(queue) < QueueCap
               THEN /\ queue' = Append(queue, Item(nPushed', lastPush'))
                    /\ nPushed' \in accepted'
               ELSE /\ queue' = queue
                    /\ nPushed' \notin accepted']_vars

\* a call found the channel full and its metric was dropped
C1_Witness ==
    /\ ~closed
    /\ Len(queue) = QueueCap
    /\ nPushed \notin accepted
    /\ nPushed > 0

\* C2: with every submitted metric no longer than statsdMaxLen, neither the
\* packet buffer nor any datagram written is longer than statsdMaxLen.
C2_PacketWithinMaxLen ==
    ~tooLong =>
        /\ Len(buf) <= statsdMaxLen
        /\ \A i \in DOMAIN sent : Len(sent[i].bytes) <= statsdMaxLen

\* C3: as long as nothing failed and the channel is open, an accepted metric
\* is eventually written; and no metric is written twice.
C3_DeliveredOnce ==
    /\ [](\A i, j \in DOMAIN Written : Written[i] = Written[j] => i = j)
    /\ \A id \in Ids :
         (id \in accepted /\ ~wasDown) ~> (Delivered(id) \/ wasDown \/ closed)

\* with no failure and the channel open, every accepted metric was written,
\* two of them in one datagram
C3_Witness ==
    /\ ~wasDown
    /\ ~closed
    /\ nPushed = MaxPush
    /\ \A id \in accepted : Delivered(id)
    /\ \E i \in DOMAIN sent : Len(sent[i].ids) >= 2

C5_ShutdownTerminates ==
    /\ closed ~> (pc = "QUIT")
    /\ [][pc = "QUIT" => UNCHANGED << pc, queue, buf, sock, sent >>]_vars

\* QUIT was reached after a close during WAIT
C5_Witness ==
    /\ pc = "QUIT"
    /\ closedAt = "WAIT"
    /\ nPushed = MaxPush

\* C6: with the channel closed while flushMetrics was ACTIVE and no failure,
\* every accepted metric has been written when QUIT is reached.
C6_ShutdownFlushes ==
    (pc = "QUIT" /\ closedAt = "ACTIVE" /\ ~wasDown) =>
        \A id \in accepted : Delivered(id)

\* C7: with the channel open, WAIT is left for CONNECT; a metric in the
\* channel or the buffer once ACTIVE again is written unless something fails
\* again; and a PushMetric call during WAIT does not fail and is accepted when
\* the channel has room.
C7_RecoversFromOutage ==
    /\ (pc = "WAIT") ~> (pc = "CONNECT" \/ closed)
    /\ \A id \in Ids :
         (wasDown /\ pc = "ACTIVE" /\ InFlight(id))
            ~> (Delivered(id) \/ pc = "WAIT" \/ closed)
    /\ [][(IsPush /\ pc = "WAIT" /\ ~closed) =>
            /\ ~panicked'
            /\ (Len(queue) < QueueCap => nPushed' \in accepted')]_vars

\* after an outage that lost an accepted metric, a later one was written
C7_Witness ==
    /\ wasDown
    /\ ~closed
    /\ pc = "ACTIVE"
    /\ \E i, j \in accepted :
         /\ i < j
         /\ ~Delivered(i)
         /\ ~InFlight(i)
         /\ Delivered(j)

\* a step in which a client method is called
IsCall == pending = << >> /\ (nPushed' # nPushed \/ lastCall' # lastCall)

\* the string is a counter metric: it ends in |c
IsCounter(m) == Len(m) >= 2 /\ m[Len(m) - 1] = "|" /\ m[Len(m)] = "c"

\* C8: when Gauge or FGauge has returned from a call with a negative value,
\* its second metric (the negative value) is in the accepted set only if its
\* first (the reset to zero) is.
C8_ZeroResetFirst ==
    (pending = << >> /\ lastCall.op \in {"Gauge", "FGauge"} /\ lastCall.arg < 0)
        => (nPushed \in accepted => (nPushed - 1) \in accepted)

\* C9: a call of Incr or Decr with count 0 changes nothing of the sink; with
\* any other count it makes exactly one PushMetric call, of a counter metric.
C9_ZeroCountSubmitsNothing ==
    [][(IsCall /\ lastCall'.op \in {"Incr", "Decr"}) =>
          IF lastCall'.arg = 0
          THEN UNCHANGED sinkVars
          ELSE /\ nPushed' = nPushed + 1
               /\ pending' = << >>
               /\ IsCounter(lastPush')]_vars

\* Incr or Decr was called with count 0 while metrics were queued and buffered
C9_Witness ==
    /\ lastCall.op \in {"Incr", "Decr"}
    /\ lastCall.arg = 0
    /\ queue # << >>
    /\ buf # << >>

\* C10: every line of every datagram written begins with c.prefix.
C10_LinesHavePrefix ==
    \A i \in DOMAIN sent :
        Len(sent[i].bytes) > 0 =>
            \A k \in DOMAIN Split(sent[i].bytes) :
                HasPrefix(Split(sent[i].bytes)[k], prefix)

\* C11: whenever flushMetrics enters ACTIVE (a dial succeeded: the first one,
\* one after WAIT, or one forced by the reconnect ticker), the packet buffer
\* is empty.
C11_BufferEmptyOnActive ==
    [][(pc # "ACTIVE" /\ pc' = "ACTIVE") => buf' = << >>]_vars

\* with acc accepted, q queued, b buffered and s written, metric id is gone:
\* accepted, and neither queued, nor buffered, nor written
GoneIn(acc, q, b, s, id) ==
    /\ id \in acc
    /\ \A i \in DOMAIN q : q[i].id # id
    /\ \A i \in DOMAIN b : b[i] # id
    /\ \A k \in DOMAIN s : \A i \in DOMAIN s[k].ids : s[k].ids[i] # id

Gone(id) == GoneIn(accepted, queue, bufIds, sent, id)

\* Gone(id) of the next state
GoneNext(id) == GoneIn(accepted', queue', bufIds', sent', id)

\* C12: a write that fails (flushMetrics goes from ACTIVE to WAIT) adds no
\* datagram and leaves the buffer empty, its metrics gone; a metric that is
\* gone is never written later; and no metric is written twice.
C12_FailedWriteNotRetried ==
    /\ [][(pc = "ACTIVE" /\ pc' = "WAIT") =>
            /\ sent' = sent
            /\ buf' = << >>
            /\ \A i \in DOMAIN bufIds : GoneNext(bufIds[i])]_vars
    /\ [][\A id \in Ids : Gone(id) => GoneNext(id)]_vars
    /\ [](\A i, j \in DOMAIN Written : Written[i] = Written[j] => i = j)

\* after a datagram with the first metric, a write has just failed (WAIT with
\* the handle of the successful dial): the metrics of its buffer are gone
C12_Witness ==
    /\ ~tooLong
    /\ pc = "WAIT"
    /\ sock = "open"
    /\ wait = "armed"
    /\ Written = << 1 >>
    /\ \E id \in Ids : id > 1 /\ Gone(id)
    /\ queue = << >>

\* C13: a dial ends in ACTIVE with a handle or in WAIT with the timer armed;
\* a write that fails ends in WAIT with the timer armed; in WAIT nothing is
\* written and nothing dialled, the timer is changed only by its five seconds
\* elapsing, and WAIT is left only for QUIT or, the timer having fired, for
\* CONNECT.
C13_CoolDownComplete ==
    /\ [][(pc \in {"CONNECT", "RECONNECT"} /\ pc' # pc) =>
            \/ pc' = "ACTIVE" /\ sock' = "open"
            \/ pc' = "WAIT" /\ sock' = "nil" /\ wait' = "armed"]_vars
    /\ [][(pc = "ACTIVE" /\ buf # << >> /\ buf' = << >> /\ sent' = sent) =>
            pc' = "WAIT" /\ wait' = "armed"]_vars
    /\ [][pc = "WAIT" =>
            /\ sent' = sent
            /\ sock' = sock
            /\ \/ pc' = "WAIT" /\ wait' = wait
               \/ pc' = "WAIT" /\ wait = "armed" /\ wait' = "fired"
               \/ pc' = "QUIT" /\ wait' = wait
               \/ pc' = "CONNECT" /\ wait = "fired"]_vars

\* after a write failure and a complete cool-down, during which a metric was
\* dequeued, flushMetrics is about to dial again
C13_Witness ==
    /\ pc = "CONNECT"
    /\ wait = "idle"
    /\ sock = "open"
    /\ wasDown
    /\ \E id \in Ids : Gone(id)
    /\ ~closed

\* C14: a metric dequeued while flushMetrics is at WAIT is not appended to the
\* buffer and not written, by that step or by any later one; and a channel
\* closed while at WAIT leads to QUIT, directly when the timer has not fired.
C14_BackoffDiscards ==
    /\ [][(pc = "WAIT" /\ queue # << >> /\ queue' = Tail(queue)) =>
            /\ pc' = "WAIT"
            /\ buf' = buf
            /\ bufIds' = bufIds
            /\ sent' = sent
            /\ GoneNext(Head(queue).id)]_vars
    /\ [][\A id \in Ids : Gone(id) => GoneNext(id)]_vars
    /\ [][(pc = "WAIT" /\ closed /\ wait = "armed" /\ pc' # "WAIT") =>
            pc' = "QUIT"]_vars
    /\ (pc = "WAIT" /\ closed) ~> (pc = "QUIT")

\* every metric pushed was accepted and none was written, and the channel was
\* closed during WAIT: QUIT was reached
C14_Witness ==
    /\ pc = "QUIT"
    /\ closedAt = "WAIT"
    /\ sock = "nil"
    /\ sent = << >>
    /\ buf = << >>
    /\ nPushed = MaxPush
    /\ \A id \in Ids : Gone(id)

\* what the flush ticker case does with a buffer that is not empty: the buffer
\* is written whole as one datagram and emptied, or the write fails
Flushed ==
    /\ buf' = << >>
    /\ bufIds' = << >>
    /\ queue' = queue
    /\ \/ sent' = Append(sent, [bytes |-> buf, ids |-> bufIds]) /\ pc' = "ACTIVE"
       \/ sent' = sent /\ pc' = "WAIT"

\* C15: at ACTIVE the flush ticker case can always be taken; with an empty
\* buffer it changes nothing at all; with a buffer that is not empty its only
\* outcomes are those of Flushed; and a datagram written while the channel is
\* left alone is the whole buffer, which is then empty.
C15_FlushTickWritesBuffer ==
    /\ [](pc = "ACTIVE" /\ ~panicked => ENABLED FlushTick)
    /\ []((pc = "ACTIVE" /\ buf = << >>) => ~ENABLED (FlushTick /\ vars' # vars))
    /\ []((pc = "ACTIVE" /\ buf # << >>) => ~ENABLED (FlushTick /\ ~Flushed))
    /\ [][(pc = "ACTIVE" /\ queue' = queue /\ sent' # sent) =>
            /\ buf # << >>
            /\ sent' = Append(sent, [bytes |-> buf, ids |-> bufIds])
            /\ buf' = << >>
            /\ pc' = "ACTIVE"]_vars

\* with no failure so far, the flush ticker wrote a buffer of two metrics and
\* left it empty, while the next metric was queued
C15_Witness ==
    /\ ~wasDown
    /\ pc = "ACTIVE"
    /\ buf = << >>
    /\ sent # << >>
    /\ Len(sent[Len(sent)].ids) = 2
    /\ queue # << >>

\* C16: at QUIT flushMetrics holds no open handle; and it never dials, which
\* overwrites sock, while sock is an open handle.
C16_HandleReleased ==
    /\ [](pc = "QUIT" => sock # "open")
    /\ [][(pc \in {"CONNECT", "RECONNECT"} /\ pc' # pc) => sock # "open"]_vars

\* C17: while flushMetrics is at WAIT the channel is never at its capacity.
C17_QueueNeverFullWhileDown == pc = "WAIT" => Len(queue) < QueueCap

\* C17, amended: at WAIT the receive case can be taken whenever the channel
\* holds a metric; a channel at capacity during WAIT, while it is open, gets
\* below capacity again; until then a PushMetric call leaves it as it is and
\* does not fail.
C17_BackoffDrains ==
    /\ []((pc = "WAIT" /\ queue # << >> /\ ~panicked) => ENABLED WaitRecv)
    /\ (pc = "WAIT" /\ ~closed /\ Len(queue) = QueueCap)
          ~> (Len(queue) < QueueCap \/ closed)
    /\ [][(IsPush /\ pc = "WAIT" /\ ~closed /\ Len(queue) = QueueCap) =>
            queue' = queue /\ ~panicked']_vars

\* the channel was at capacity, so that a call's metric was dropped, and the
\* receive case of WAIT has emptied it before the timer fired, nothing having
\* ever been written
C17_Witness ==
    /\ pc = "WAIT"
    /\ wait = "armed"
    /\ ~closed
    /\ sock = "nil"
    /\ sent = << >>
    /\ buf = << >>
    /\ queue = << >>
    /\ nPushed = QueueCap + 1
    /\ nPushed \notin accepted
    /\ \A id \in 1..QueueCap : Gone(id)

\* C18: every datagram written carries at least one metric: it has bytes.
C18_NoEmptyDatagram ==
    \A i \in DOMAIN sent : Len(sent[i].bytes) > 0 /\ sent[i].ids # << >>

\* C19: no PushMetric call panics, whether it runs before, during or after
\* Shutdown and flushMetrics' way to QUIT: it enqueues its metric or drops it.
C19_PushNeverPanics ==
    [][IsPush =>
         /\ ~panicked'
         /\ \/ queue' = Append(queue, Item(nPushed', lastPush'))
            \/ queue' = queue]_vars

=============================================================================
